---- MODULE Spec2Model ----
(***************************************************************************)
(* TCP CUBIC with HyStart (net/ipv4/tcp_cubic.c): the per-connection       *)
(* congestion state (struct bictcp), the callbacks of struct               *)
(* tcp_congestion_ops cubictcp, and the fixed-point arithmetic they use.   *)
(***************************************************************************)
EXTENDS Integers, Sequences, FiniteSets, TLC

(***************************************************************************)
(* Program constants.                                                      *)
(***************************************************************************)
BICTCP_BETA_SCALE == 1024
BICTCP_HZ == 10
HYSTART_ACK_TRAIN == 1
HYSTART_DELAY == 2
HYSTART_MIN_SAMPLES == 8
HYSTART_DELAY_MIN == 32
HYSTART_DELAY_MAX_CLAMPED == 128
INT_MAX == 2147483647
beta == 717
bic_scale == 41
initial_ssthresh == 0
hystart_low_window == 16
hystart_ack_delta == 2
\* Kernel tick frequency.  With HZ = 1000 bictcp_clock() is
\* jiffies_to_msecs(jiffies), one tick per millisecond.
HZ == 1000
USEC_PER_MSEC == 1000
TCP_CA_Open == 0
TCP_CA_Disorder == 1
TCP_CA_CWR == 2
TCP_CA_Recovery == 3
TCP_CA_Loss == 4
CA_EVENT_TX_START == 0
CA_EVENT_CWND_RESTART == 1
CA_EVENT_COMPLETE_CWR == 2
CA_EVENT_LOSS == 3
\* tp->snd_ssthresh of a new socket.
TCP_INFINITE_SSTHRESH == 2147483647
TCP_INIT_CWND == 10

(***************************************************************************)
(* u32 / u64 arithmetic.  The cubic computations need 64-bit              *)
(* intermediates, so a machine word is a sequence of eight base-256 limbs, *)
(* least significant first; a u32 is a word whose upper four limbs are 0.  *)
(***************************************************************************)
LimbBase == 2 ^ 8
NLimbs == 64 \div 8

\* Every operator below binds its operands once (x \in {e}) before using
\* them, so that an operand is evaluated once however often it is read.

Pow2(n) == 2 ^ n

\* F applied to the value of v, which is evaluated once.
Bind(v, F(_)) == CHOOSE r \in { F(x) : x \in {v} } : TRUE

\* The word whose limb i is F(i), as an explicit tuple of NLimbs limbs.
Word(F(_)) == <<F(1), F(2), F(3), F(4), F(5), F(6), F(7), F(8)>>

\* The word of a non-negative int below 2^31.
U64(n) ==
  CHOOSE w \in { Word(LAMBDA i :
                    IF i > 4 THEN 0 ELSE (x \div Pow2(8 * (i - 1))) % LimbBase) :
                 x \in {n} } : TRUE

\* The int of a word below 2^31.
ToInt(a) ==
  CHOOSE n \in { x[1] + 256 * x[2] + 65536 * x[3] + 16777216 * x[4] :
                 x \in {a} } : TRUE

\* (u32) cast of a u64.
Trunc32(a) ==
  CHOOSE w \in { Word(LAMBDA i : IF i > 4 THEN 0 ELSE x[i]) :
                 x \in {a} } : TRUE

IsZero(a) == \A x \in {a} : \A i \in 1..NLimbs : x[i] = 0

\* Fits a non-negative int (below 2^31).
FitsInt(a) ==
  \A x \in {a} : (\A i \in 5..NLimbs : x[i] = 0) /\ x[4] < 128

RECURSIVE AddFrom(_, _, _, _)
AddFrom(a, b, i, c) ==
  IF i > NLimbs THEN <<>>
  ELSE CHOOSE w \in { <<s % LimbBase>> \o AddFrom(a, b, i + 1, s \div LimbBase) :
                      s \in {a[i] + b[i] + c} } : TRUE

\* a + b modulo 2^64.
Add64(a, b) ==
  CHOOSE w \in { AddFrom(x, y, 1, 0) : x \in {a}, y \in {b} } : TRUE

RECURSIVE SubFrom(_, _, _, _)
SubFrom(a, b, i, c) ==
  IF i > NLimbs THEN <<>>
  ELSE CHOOSE w \in
         { IF s < 0 THEN <<s + LimbBase>> \o SubFrom(a, b, i + 1, 1)
                    ELSE <<s>> \o SubFrom(a, b, i + 1, 0) :
           s \in {a[i] - b[i] - c} } : TRUE

\* a - b modulo 2^64.
Sub64(a, b) ==
  CHOOSE w \in { SubFrom(x, y, 1, 0) : x \in {a}, y \in {b} } : TRUE

RECURSIVE ColSum(_, _, _, _)
ColSum(a, b, k, i) ==
  IF i > k THEN 0 ELSE a[i] * b[k + 1 - i] + ColSum(a, b, k, i + 1)

RECURSIVE MulFrom(_, _, _, _)
MulFrom(a, b, k, c) ==
  IF k > NLimbs THEN <<>>
  ELSE CHOOSE w \in { <<s % LimbBase>> \o MulFrom(a, b, k + 1, s \div LimbBase) :
                      s \in {ColSum(a, b, k, 1) + c} } : TRUE

\* Both words are below 2^15, so that their product is an int.
FitsHalf(a, b) ==
  (\A i \in 3..NLimbs : a[i] = 0 /\ b[i] = 0) /\ a[2] < 128 /\ b[2] < 128

\* a * b modulo 2^64; the product of two small words is taken directly.
Mul64(a, b) ==
  CHOOSE w \in { IF FitsHalf(x, y) THEN U64(ToInt(x) * ToInt(y))
                                   ELSE MulFrom(x, y, 1, 0) :
                 x \in {a}, y \in {b} } : TRUE

RECURSIVE LessFrom(_, _, _)
LessFrom(a, b, i) ==
  IF i = 0 THEN FALSE
  ELSE IF a[i] # b[i] THEN a[i] < b[i] ELSE LessFrom(a, b, i - 1)

\* Unsigned a < b.
Less64(a, b) == \E x \in {a}, y \in {b} : LessFrom(x, y, NLimbs)

Limb(a, i) == IF i >= 1 /\ i <= NLimbs THEN a[i] ELSE 0

\* a >> n, 0 <= n < 64.
Shr64(a, n) ==
  CHOOSE w \in
    { Word(LAMBDA i :
         ((Limb(x, i + (m \div 8)) \div Pow2(m % 8))
            + Limb(x, i + (m \div 8) + 1) * Pow2(8 - (m % 8))) % LimbBase) :
      x \in {a}, m \in {n} } : TRUE

\* a << n modulo 2^64, 0 <= n < 64.
Shl64(a, n) ==
  CHOOSE w \in
    { Word(LAMBDA i :
         (Limb(x, i - (m \div 8)) * Pow2(m % 8)
            + (Limb(x, i - (m \div 8) - 1) \div Pow2(8 - (m % 8)))) % LimbBase) :
      x \in {a}, m \in {n} } : TRUE

RECURSIVE Fls8(_)
Fls8(x) == IF x = 0 THEN 0 ELSE 1 + Fls8(x \div 2)

RECURSIVE FlsFrom(_, _)
FlsFrom(a, i) ==
  IF i = 0 THEN 0
  ELSE IF a[i] # 0 THEN 8 * (i - 1) + Fls8(a[i]) ELSE FlsFrom(a, i - 1)

\* fls64(): position of the most significant set bit, 0 for 0.
fls64(a) == CHOOSE n \in { FlsFrom(x, NLimbs) : x \in {a} } : TRUE

Bit(a, n) == (a[(n \div 8) + 1] \div Pow2(n % 8)) % 2

\* One step of the long division: bit n of the dividend is shifted into
\* the remainder; qr is <<quotient, remainder>>.
DivStep(a, d, n, qr) ==
  CHOOSE res \in
    { IF Less64(r2, d) THEN <<Shl64(qr[1], 1), r2>>
                       ELSE <<Add64(Shl64(qr[1], 1), U64(1)), Sub64(r2, d)>> :
      r2 \in {Add64(Shl64(qr[2], 1), U64(Bit(a, n)))} } : TRUE

\* The steps of the long division for the k bits from bit n down.
RECURSIVE DivBits(_, _, _, _, _)
DivBits(a, d, n, k, qr) ==
  IF k = 0 \/ n < 0 THEN qr
  ELSE CHOOSE res \in { DivBits(a, d, m, j, s) :
                         s \in {DivStep(a, d, n, qr)}, m \in {n - 1},
                         j \in {k - 1} } : TRUE

\* The long division from bit n down, eight bits at a time.
RECURSIVE DivFrom(_, _, _, _)
DivFrom(a, d, n, qr) ==
  IF n < 0 THEN qr
  ELSE CHOOSE res \in { DivFrom(a, d, m, s) :
                         s \in {DivBits(a, d, n, 8, qr)}, m \in {n - 8} } : TRUE

\* Hexadecimal digit k (0 the least significant) of a word.
Nibble(a, k) == (a[(k \div 2) + 1] \div (IF k % 2 = 1 THEN 16 ELSE 1)) % 16

\* The short division of a word by an int d below 2^27, one hexadecimal
\* digit at a time from digit k down; the quotient's digits, the least
\* significant first.
RECURSIVE DivDigits(_, _, _, _)
DivDigits(a, d, k, rem) ==
  IF k < 0 THEN <<>>
  ELSE CHOOSE q \in { DivDigits(a, d, k - 1, cur % d) \o <<cur \div d>> :
                      cur \in {rem * 16 + Nibble(a, k)} } : TRUE

DivShort(a, d) ==
  CHOOSE w \in { Word(LAMBDA i : q[2 * i - 1] + 16 * q[2 * i]) :
                 q \in {DivDigits(a, d, 2 * NLimbs - 1, 0)} } : TRUE

\* d is below 2^27.
FitsShort(d) == (\A i \in 5..NLimbs : d[i] = 0) /\ d[4] < 8

\* div64_u64(a, d), d # 0: short division by a small divisor, and long
\* division otherwise.
div64_u64(a, d) ==
  CHOOSE q \in { IF FitsShort(y) THEN DivShort(x, ToInt(y))
                 ELSE DivFrom(x, y, fls64(x) - 1, <<U64(0), U64(0)>>)[1] :
                 x \in {a}, y \in {d} } : TRUE

(***************************************************************************)
(* cubic_root(): table lookup followed by one Newton-Raphson iteration.    *)
(***************************************************************************)
\* cbrt(x) MSB values for x MSB values in [0..63]; v[x] is CbrtTable[x + 1].
CbrtTable ==
  <<   0,  54,  54,  54, 118, 118, 118, 118,
     123, 129, 134, 138, 143, 147, 151, 156,
     157, 161, 164, 168, 170, 173, 176, 179,
     181, 185, 187, 190, 192, 194, 197, 199,
     200, 202, 204, 206, 209, 211, 213, 215,
     217, 219, 221, 222, 224, 225, 227, 229,
     231, 232, 234, 236, 237, 239, 240, 242,
     244, 245, 246, 248, 250, 251, 252, 254 >>

\* b = ((b * 84) >> 8) - 1 for b = fls64(a) >= 7.
CbrtShift(a) == ((fls64(a) * 84) \div 256) - 1

\* The table index a >> (b * 3), as u32.
CbrtIndex(a) == ToInt(Trunc32(Shr64(a, CbrtShift(a) * 3)))

\* The seed x = ((u32)(((u32)v[shift] + 10) << b)) >> 6.
CbrtSeed(a) ==
  ToInt(Shr64(Trunc32(Shl64(U64(CbrtTable[CbrtIndex(a) + 1] + 10),
                            CbrtShift(a))), 6))

\* The Newton-Raphson divisor (u64)x * (u64)(x - 1); x - 1 is a u32.
CbrtDivisor(x) == Mul64(U64(x), Trunc32(Sub64(U64(x), U64(1))))

\* cubic_root() without its Newton-Raphson iteration: the seed alone.
CbrtNewtonSkipped(a, x) == x

\* x = 2 * x + (u32)div64_u64(a, x * (x - 1)); x = (x * 341) >> 10, in u32.
CbrtNewton(a, x) ==
  ToInt(Shr64(Trunc32(Mul64(
    Trunc32(Add64(Mul64(U64(2), U64(x)),
                  Trunc32(div64_u64(a, CbrtDivisor(x))))),
    U64(341))), 10))

cubic_root(a) ==
  CHOOSE r \in { IF fls64(x) < 7
                 THEN (CbrtTable[ToInt(x) + 1] + 35) \div 64
                 ELSE CbrtNewton(x, CbrtSeed(x)) : x \in {a} } : TRUE

(***************************************************************************)
(* Bounds of the model.                                                    *)
(***************************************************************************)
\* Congestion windows: the largest tp->snd_cwnd_clamp and initial window.
MaxCwnd == 17
\* The clock stops at StartJiffies + MaxElapsed, and at StartJiffies +
\* MaxIdleElapsed where idle periods are followed.
MaxElapsed == 1000
MaxIdleElapsed == 2001
\* Fine (one-tick) steps taken after each coarse step of the clock.
MaxFineTicks == 1
\* Largest sequence number sent.
MaxSeq == 1
\* Caps on the TCP-friendliness counters ack_cnt and tcp_cwnd.
MaxAckCnt == 4
MaxTcpCwnd == 21

\* tcp_jiffies32 when the connection starts: one tick before the 32-bit
\* tick counter wraps to 0.  Tick values are kept in their s32 reading
\* (0xffffffff is -1), so that (s32)(a - b) is a - b.
StartJiffies == -1
\* The coarse step of the clock: one second.
CoarseTick == HZ
TickSteps == {1, CoarseTick}
\* Packets newly acknowledged by one ACK.
AckedSet == {1, 3}
\* RTT samples in microseconds; a negative one has no timestamp.
RttSamples == {-1, 3000, 5000}
\* Windows the caller may fall back to after a loss.
ReducedWindows == {1, 3}
CaStates == {TCP_CA_Open, TCP_CA_Disorder, TCP_CA_CWR, TCP_CA_Recovery, TCP_CA_Loss}
CaEvents == {CA_EVENT_TX_START, CA_EVENT_CWND_RESTART, CA_EVENT_COMPLETE_CWR,
             CA_EVENT_LOSS}

(***************************************************************************)
(* State.                                                                  *)
(***************************************************************************)
VARIABLES
  ca,        \* struct bictcp
  tp,        \* the fields of struct tcp_sock the callbacks read and write
  jiffies,   \* tcp_jiffies32
  param,     \* the module parameters that are switches
  call       \* the last callback: which one, the path it took, its operands

vars == <<ca, tp, jiffies, param, call>>

\* (s32)(a - b) of two tick or sequence values in their s32 reading: the
\* u32 difference, read as signed, so that it wraps at 2^31.
S32Diff(a, b) ==
  IF a >= 0 /\ b < 0
  THEN IF ((a - Pow2(30)) - Pow2(30)) - b >= 0
       THEN ((((a - Pow2(30)) - Pow2(30)) - b) - Pow2(30)) - Pow2(30)
       ELSE a - b
  ELSE IF a < 0 /\ b >= 0
       THEN IF ((a + Pow2(30)) + Pow2(30)) - b < 0
            THEN ((((a + Pow2(30)) + Pow2(30)) - b) + Pow2(30)) + Pow2(30)
            ELSE a - b
       ELSE a - b

\* after(seq1, seq2): (s32)(seq2 - seq1) < 0.
after(seq1, seq2) == S32Diff(seq2, seq1) < 0

\* bictcp_clock(): jiffies_to_msecs(jiffies) for HZ >= 1000, which is
\* (MSEC_PER_SEC / HZ) * jiffies for an HZ that divides 1000.
bictcp_clock(now) == (1000 \div HZ) * now

\* msecs_to_jiffies(m) for HZ = 1000.
msecs_to_jiffies(m) == (m * HZ) \div 1000

Max(a, b) == IF a > b THEN a ELSE b
Min(a, b) == IF a < b THEN a ELSE b

\* clamp(val, lo, hi).
clamp(val, lo, hi) == Min(Max(val, lo), hi)

\* The precomputed scale factors of cubictcp_register().
beta_scale == ((8 * (BICTCP_BETA_SCALE + beta)) \div 3) \div (BICTCP_BETA_SCALE - beta)
cube_rtt_scale == bic_scale * 10
cube_factor == div64_u64(Shl64(U64(1), 10 + 3 * BICTCP_HZ), U64(bic_scale * 10))

ZeroCa ==
  [cnt |-> 0, last_max_cwnd |-> 0, last_cwnd |-> 0, last_time |-> 0,
   bic_origin_point |-> 0, bic_K |-> 0, delay_min |-> 0, epoch_start |-> 0,
   ack_cnt |-> 0, tcp_cwnd |-> 0, sample_cnt |-> 0, found |-> 0,
   round_start |-> 0, end_seq |-> 0, last_ack |-> 0, curr_rtt |-> 0]

\* bictcp_reset() that forgets to clear the HyStart exit flags.
bictcp_reset_keeps_found(c) ==
  [c EXCEPT !.cnt = 0, !.last_max_cwnd = 0, !.last_cwnd = 0, !.last_time = 0,
            !.bic_origin_point = 0, !.bic_K = 0, !.delay_min = 0,
            !.epoch_start = 0, !.ack_cnt = 0, !.tcp_cwnd = 0]

bictcp_reset(c) ==
  [c EXCEPT !.cnt = 0, !.last_max_cwnd = 0, !.last_cwnd = 0, !.last_time = 0,
            !.bic_origin_point = 0, !.bic_K = 0, !.delay_min = 0,
            !.epoch_start = 0, !.ack_cnt = 0, !.tcp_cwnd = 0, !.found = 0]

\* bictcp_hystart_reset() that keeps the sample count of the round.
bictcp_hystart_reset_keeps_samples(c, now, snd_nxt) ==
  [c EXCEPT !.round_start = bictcp_clock(now), !.last_ack = bictcp_clock(now),
            !.end_seq = snd_nxt, !.curr_rtt = 0]

bictcp_hystart_reset(c, now, snd_nxt) ==
  [c EXCEPT !.round_start = bictcp_clock(now), !.last_ack = bictcp_clock(now),
            !.end_seq = snd_nxt, !.curr_rtt = 0, !.sample_cnt = 0]

(***************************************************************************)
(* bictcp_update(): compute the congestion window increment ca->cnt.       *)
(***************************************************************************)
\* bictcp_update() without its rate-limit guard.
RateLimitedNever(c, cwnd, now) == FALSE

\* The rate-limit guard without its comparison of the windows.
RateLimitedByTime(c, cwnd, now) == S32Diff(now, c.last_time) <= HZ \div 32

\* The rate-limit guard: same window and at most HZ / 32 ticks later.
RateLimited(c, cwnd, now) ==
  c.last_cwnd = cwnd /\ S32Diff(now, c.last_time) <= HZ \div 32

\* bictcp_update() that recomputes the cubic function on every call.
SkipCubicNever(c, now) == FALSE

\* An epoch is active and the cubic part already ran in this tick.
SkipCubic(c, now) == c.epoch_start # 0 /\ now = c.last_time

\* bic_K = cubic_root(cube_factor * (last_max_cwnd - cwnd)).
EpochK(diff) == cubic_root(Mul64(cube_factor, U64(diff)))

\* EpochK of the differences 1..n, each computed once.
RECURSIVE EpochKs(_)
EpochKs(n) == IF n = 0 THEN <<>> ELSE Append(EpochKs(n - 1), EpochK(n))

EpochKTable == EpochKs(MaxCwnd)

\* K of a new epoch below the last maximum.
NewK(last_max_cwnd, cwnd) ==
  IF last_max_cwnd - cwnd <= Len(EpochKTable)
  THEN EpochKTable[last_max_cwnd - cwnd]
  ELSE EpochK(last_max_cwnd - cwnd)

\* if (ca->epoch_start == 0) { ... }: record the beginning of an epoch.
StartEpoch(c, cwnd, acked, now) ==
  Bind(c, LAMBDA x :
    IF x.epoch_start # 0 THEN x
    ELSE IF x.last_max_cwnd <= cwnd
         THEN [x EXCEPT !.epoch_start = now, !.ack_cnt = acked, !.tcp_cwnd = cwnd,
                        !.bic_K = 0, !.bic_origin_point = cwnd]
         ELSE [x EXCEPT !.epoch_start = now, !.ack_cnt = acked, !.tcp_cwnd = cwnd,
                        !.bic_K = NewK(x.last_max_cwnd, cwnd),
                        !.bic_origin_point = x.last_max_cwnd])

\* (u64)(s32)x: sign extension.
SignExtend(x) ==
  IF x >= 0 THEN U64(x) ELSE Sub64(U64(0), Add64(U64(0 - (x + 1)), U64(1)))

\* t = (s32)(tcp_jiffies32 - epoch_start) + msecs_to_jiffies(delay_min >> 3),
\* changed from HZ to BICTCP_HZ units.
CubicTime(c, now) ==
  div64_u64(Shl64(Add64(SignExtend(S32Diff(now, c.epoch_start)),
                        U64(msecs_to_jiffies(c.delay_min \div 8))),
                  BICTCP_HZ),
            U64(HZ))

\* offs = |t - K|.
CubicOffs(t, K) == IF Less64(t, U64(K)) THEN Sub64(U64(K), t) ELSE Sub64(t, U64(K))

\* delta = (cube_rtt_scale * offs * offs * offs) >> (10 + 3 * BICTCP_HZ), a u32.
CubicDelta(offs) ==
  Bind(offs, LAMBDA o :
    Trunc32(Shr64(Mul64(Mul64(Mul64(U64(cube_rtt_scale), o), o), o),
                  10 + 3 * BICTCP_HZ)))

\* bic_target = bic_origin_point -/+ delta, a u32.
BicTarget(c, now) ==
  Bind(CubicTime(c, now), LAMBDA t :
    IF Less64(t, U64(c.bic_K))
    THEN Trunc32(Sub64(U64(c.bic_origin_point), CubicDelta(CubicOffs(t, c.bic_K))))
    ELSE Trunc32(Add64(U64(c.bic_origin_point), CubicDelta(CubicOffs(t, c.bic_K)))))

\* cwnd / (bic_target - cwnd) for bic_target > cwnd, else 100 * cwnd.
CntFromTarget(target, cwnd) ==
  Bind(target, LAMBDA tg :
    IF Less64(U64(cwnd), tg)
    THEN Bind(Sub64(tg, U64(cwnd)), LAMBDA diff :
           IF FitsInt(diff) THEN cwnd \div ToInt(diff) ELSE 0)
    ELSE 100 * cwnd)

\* bictcp_update() without the clamp of the first epoch.
FirstEpochClampMissing(c, cnt) == cnt

\* The initial growth clamp of the first epoch.
FirstEpochClamp(c, cnt) == IF c.last_max_cwnd = 0 /\ cnt > 20 THEN 20 ELSE cnt

\* The cubic function: ca->cnt from the elapsed time of the epoch.
CubicCnt(c, cwnd, now) ==
  Bind(c, LAMBDA x :
    [x EXCEPT !.cnt = FirstEpochClamp(x, CntFromTarget(BicTarget(x, now), cwnd))])

\* while (ca->ack_cnt > delta) { ca->ack_cnt -= delta; ca->tcp_cwnd++; }
\* The result is <<ack_cnt, tcp_cwnd>>.
RECURSIVE RenoLoop(_, _, _)
RenoLoop(ack_cnt, tcp_cwnd, delta) ==
  IF ack_cnt > delta
  THEN CHOOSE r \in { RenoLoop(a, w, delta) :
                      a \in {ack_cnt - delta}, w \in {tcp_cwnd + 1} } : TRUE
  ELSE <<ack_cnt, tcp_cwnd>>

\* The friendliness blend without its cap.
RenoCapMissing(cnt, tcp_cwnd, cwnd) == cnt

\* if (ca->cnt > max_cnt) ca->cnt = max_cnt, for tcp_cwnd > cwnd.
RenoCap(cnt, tcp_cwnd, cwnd) ==
  IF tcp_cwnd > cwnd
  THEN IF cnt > cwnd \div (tcp_cwnd - cwnd) THEN cwnd \div (tcp_cwnd - cwnd) ELSE cnt
  ELSE cnt

\* The tcp_friendliness: label.
Friendliness(c, cwnd, friendly) ==
  IF friendly = 0 THEN c
  ELSE Bind(c, LAMBDA x :
         Bind(RenoLoop(x.ack_cnt, x.tcp_cwnd, (cwnd * beta_scale) \div 8),
              LAMBDA r : [x EXCEPT !.ack_cnt = r[1], !.tcp_cwnd = r[2],
                                   !.cnt = RenoCap(x.cnt, r[2], cwnd)]))

\* bictcp_update() without its final floor.
FinalFloorMissing(c) == c

\* ca->cnt = max(ca->cnt, 2U).
FinalFloor(c) == Bind(c, LAMBDA x : [x EXCEPT !.cnt = Max(x.cnt, 2)])

\* The path of one call: "limited" (early return), "friendly" (goto
\* tcp_friendliness) or "full".
UpdatePath(c, cwnd, acked, now) ==
  IF RateLimited(c, cwnd, now) THEN "limited"
  ELSE IF SkipCubic(c, now) THEN "friendly" ELSE "full"

bictcp_update(c, cwnd, acked, now, friendly) ==
  Bind([c EXCEPT !.ack_cnt = c.ack_cnt + acked], LAMBDA c1 :
    IF RateLimited(c1, cwnd, now) THEN c1
    ELSE IF SkipCubic(c1, now)
         THEN FinalFloor(Friendliness(c1, cwnd, friendly))
         ELSE FinalFloor(Friendliness(
                CubicCnt(StartEpoch([c1 EXCEPT !.last_cwnd = cwnd,
                                               !.last_time = now],
                                    cwnd, acked, now),
                         cwnd, now),
                cwnd, friendly)))

(***************************************************************************)
(* HyStart.                                                                *)
(***************************************************************************)
\* x & b # 0 for a single-bit mask b.
HasBit(x, b) == (x \div b) % 2 = 1

\* A detector that fires without recording its flag.
SetBitNever(x, b) == x

\* x |= b for a single-bit mask b.
SetBit(x, b) == IF HasBit(x, b) THEN x ELSE x + b

\* ca->found & hystart_detect.
FoundEnabled(found, detect) ==
  \E b \in {HYSTART_ACK_TRAIN, HYSTART_DELAY} : HasBit(found, b) /\ HasBit(detect, b)

\* The ack-train detector without its test of the time since the round
\* started.
GreaterUAlways(s, u) == TRUE

\* (s32)s > u, compared as unsigned: a negative s is a large u32.
GreaterU(s, u) == s < 0 \/ s > u

\* HYSTART_DELAY_MAX.
HYSTART_DELAY_MAX(delay_max) ==
  IF delay_max # 0 THEN HYSTART_DELAY_MAX_CLAMPED ELSE INT_MAX

\* HYSTART_DELAY_THRESH(x).
HYSTART_DELAY_THRESH(x, delay_max) ==
  clamp(x, HYSTART_DELAY_MIN, HYSTART_DELAY_MAX(delay_max))

\* The ack-train detector; st is <<ca, snd_ssthresh>>.
AckTrain(st, cwnd, now) ==
  Bind(st, LAMBDA x :
    IF S32Diff(now, x[1].last_ack) <= hystart_ack_delta
    THEN IF GreaterU(S32Diff(now, x[1].round_start), x[1].delay_min \div 16)
         THEN <<[x[1] EXCEPT !.last_ack = now,
                             !.found = SetBit(x[1].found, HYSTART_ACK_TRAIN)],
                cwnd>>
         ELSE <<[x[1] EXCEPT !.last_ack = now], x[2]>>
    ELSE x)

\* hystart_update() without the minimum taken on every sample.
FoldSampleMissing(c, delay) == c

\* if (ca->curr_rtt > delay) ca->curr_rtt = delay;
FoldSample(c, delay) == IF c.curr_rtt > delay THEN [c EXCEPT !.curr_rtt = delay] ELSE c

\* The delay-increase test without the clamp of its threshold.
DelayExceededUnclamped(c, delay_max) ==
  c.curr_rtt > c.delay_min + (c.delay_min \div 8)

\* The delay-increase test of a round with its samples collected.
DelayExceeded(c, delay_max) ==
  c.curr_rtt > c.delay_min + HYSTART_DELAY_THRESH(c.delay_min \div 8, delay_max)

\* The delay detector; st is <<ca, snd_ssthresh>>.
DelayDetect(st, cwnd, delay, delay_max) ==
  Bind(<<FoldSample(st[1], delay), st[2]>>, LAMBDA x :
    IF x[1].sample_cnt < HYSTART_MIN_SAMPLES
    THEN <<[x[1] EXCEPT
              !.curr_rtt = IF x[1].curr_rtt = 0 \/ x[1].curr_rtt > delay
                           THEN delay ELSE x[1].curr_rtt,
              !.sample_cnt = x[1].sample_cnt + 1],
           x[2]>>
    ELSE IF DelayExceeded(x[1], delay_max)
         THEN <<[x[1] EXCEPT !.found = SetBit(x[1].found, HYSTART_DELAY)], cwnd>>
         ELSE x)

\* hystart_update() without its early return.
HystartDoneNever(c, detect) == FALSE

\* if (ca->found & hystart_detect) return;
HystartDone(c, detect) == FoundEnabled(c.found, detect)

\* hystart_update(sk, delay): the result is <<ca, snd_ssthresh>>.
hystart_update(c, ssthresh, cwnd, delay, now, prm) ==
  IF HystartDone(c, prm.hystart_detect) THEN <<c, ssthresh>>
  ELSE Bind(IF HasBit(prm.hystart_detect, HYSTART_ACK_TRAIN)
            THEN AckTrain(<<c, ssthresh>>, cwnd, bictcp_clock(now))
            ELSE <<c, ssthresh>>,
            LAMBDA st :
              IF HasBit(prm.hystart_detect, HYSTART_DELAY)
              THEN DelayDetect(st, cwnd, delay, prm.hystart_delay_max)
              ELSE st)

\* tcp_in_slow_start(tp).
tcp_in_slow_start(t) == t.snd_cwnd < t.snd_ssthresh

\* delay = (sample->rtt_us << 3) / USEC_PER_MSEC; if (delay == 0) delay = 1;
SampleDelay(rtt_us) == Max((rtt_us * 8) \div USEC_PER_MSEC, 1)

\* Discard delay samples right after fast recovery.
DiscardSample(c, now) == c.epoch_start # 0 /\ S32Diff(now, c.epoch_start) < HZ

\* The path of one bictcp_acked() call.
AckedPath(c, t, rtt_us, now, prm) ==
  IF rtt_us < 0 THEN "no_rtt"
  ELSE IF DiscardSample(c, now) THEN "discard"
  ELSE IF prm.hystart # 0 /\ tcp_in_slow_start(t) /\ t.snd_cwnd >= hystart_low_window
       THEN "hystart" ELSE "sample"

\* bictcp_acked(sk, sample): the result is <<ca, snd_ssthresh>>.
bictcp_acked(c, t, rtt_us, now, prm) ==
  IF AckedPath(c, t, rtt_us, now, prm) = "hystart"
  THEN hystart_update(c, t.snd_ssthresh, t.snd_cwnd, SampleDelay(rtt_us), now, prm)
  ELSE <<c, t.snd_ssthresh>>

(***************************************************************************)
(* The other callbacks.                                                    *)
(***************************************************************************)
\* bictcp_init(sk): the result is <<ca, snd_ssthresh>>.
bictcp_init(c, t, now, prm) ==
  <<IF prm.hystart # 0
    THEN bictcp_hystart_reset(bictcp_reset(c), now, t.snd_nxt)
    ELSE bictcp_reset(c),
    IF prm.hystart = 0 /\ initial_ssthresh # 0 THEN initial_ssthresh
    ELSE t.snd_ssthresh>>

\* bictcp_cwnd_event() that shifts the epoch without clamping it to now.
bictcp_cwnd_event_unclamped(c, t, event, now) ==
  IF event = CA_EVENT_TX_START /\ c.epoch_start # 0 /\ S32Diff(now, t.lsndtime) > 0
  THEN [c EXCEPT !.epoch_start = c.epoch_start + S32Diff(now, t.lsndtime)]
  ELSE c

\* bictcp_cwnd_event(sk, event): the new ca.
bictcp_cwnd_event(c, t, event, now) ==
  IF event = CA_EVENT_TX_START /\ c.epoch_start # 0 /\ S32Diff(now, t.lsndtime) > 0
  THEN Bind(c.epoch_start + S32Diff(now, t.lsndtime), LAMBDA e :
         [c EXCEPT !.epoch_start = IF after(e, now) THEN now ELSE e])
  ELSE c

\* bictcp_recalc_ssthresh() without fast convergence.
RecalcCaNoFastConvergence(c, t, prm) ==
  [c EXCEPT !.epoch_start = 0, !.last_max_cwnd = t.snd_cwnd]

\* bictcp_recalc_ssthresh(sk): the new ca.
RecalcCa(c, t, prm) ==
  [c EXCEPT !.epoch_start = 0,
            !.last_max_cwnd =
              IF t.snd_cwnd < c.last_max_cwnd /\ prm.fast_convergence # 0
              THEN (t.snd_cwnd * (BICTCP_BETA_SCALE + beta)) \div (2 * BICTCP_BETA_SCALE)
              ELSE t.snd_cwnd]

\* bictcp_recalc_ssthresh(sk): the value returned.
bictcp_recalc_ssthresh(t) == Max((t.snd_cwnd * beta) \div BICTCP_BETA_SCALE, 2)

\* bictcp_state(sk, new_state): the new ca.
bictcp_state(c, t, new_state, now) ==
  IF new_state = TCP_CA_Loss
  THEN bictcp_hystart_reset(bictcp_reset(c), now, t.snd_nxt)
  ELSE c

\* tcp_slow_start(tp, acked): <<snd_cwnd, acked left>>.
tcp_slow_start(t, acked) ==
  Bind(Min(t.snd_cwnd + acked, t.snd_ssthresh), LAMBDA cwnd :
    <<Min(cwnd, t.snd_cwnd_clamp), acked - (cwnd - t.snd_cwnd)>>)

\* tcp_cong_avoid_ai(tp, w, acked): the windows it may leave, the count
\* tp->snd_cwnd_cnt of ACKs since the last increase being the caller's.
tcp_cong_avoid_ai(t, cwnd, w, acked) == {cwnd, Min(cwnd + 1, t.snd_cwnd_clamp)}

\* The path of one bictcp_cong_avoid() call.
CongAvoidPath(c, t, acked, limited, now) ==
  IF ~limited THEN "app_limited"
  ELSE IF tcp_in_slow_start(t) /\ tcp_slow_start(t, acked)[2] = 0 THEN "slow_start"
  ELSE IF tcp_in_slow_start(t)
       THEN UpdatePath(c, tcp_slow_start(t, acked)[1], tcp_slow_start(t, acked)[2], now)
       ELSE UpdatePath(c, t.snd_cwnd, acked, now)

\* bictcp_cong_avoid() that never starts a round.
RoundResetNever(c, t, ack, now, prm) == c

\* if (hystart && after(ack, ca->end_seq)) bictcp_hystart_reset(sk);
RoundReset(c, t, ack, now, prm) ==
  IF prm.hystart # 0 /\ after(ack, c.end_seq)
  THEN bictcp_hystart_reset(c, now, t.snd_nxt) ELSE c

\* bictcp_cong_avoid() without its return for a socket that is not
\* cwnd-limited.
bictcp_cong_avoid_unlimited(c, t, ack, acked, limited, now, prm) ==
  IF tcp_in_slow_start(t)
  THEN Bind(tcp_slow_start(t, acked), LAMBDA ss :
         IF ss[2] = 0 THEN <<RoundReset(c, t, ack, now, prm), ss[1], 0>>
         ELSE <<bictcp_update(RoundReset(c, t, ack, now, prm), ss[1], ss[2],
                              now, prm.tcp_friendliness),
                ss[1], ss[2]>>)
  ELSE <<bictcp_update(c, t.snd_cwnd, acked, now, prm.tcp_friendliness),
         t.snd_cwnd, acked>>

\* bictcp_cong_avoid(sk, ack, acked) up to the call of tcp_cong_avoid_ai():
\* the result is <<ca, snd_cwnd, acked passed to bictcp_update or 0>>.
bictcp_cong_avoid(c, t, ack, acked, limited, now, prm) ==
  IF ~limited THEN <<c, t.snd_cwnd, 0>>
  ELSE IF tcp_in_slow_start(t)
       THEN Bind(tcp_slow_start(t, acked), LAMBDA ss :
              IF ss[2] = 0 THEN <<RoundReset(c, t, ack, now, prm), ss[1], 0>>
              ELSE <<bictcp_update(RoundReset(c, t, ack, now, prm), ss[1], ss[2],
                                   now, prm.tcp_friendliness),
                     ss[1], ss[2]>>)
       ELSE <<bictcp_update(c, t.snd_cwnd, acked, now, prm.tcp_friendliness),
              t.snd_cwnd, acked>>

(***************************************************************************)
(* The state machine: the transport stack calls the callbacks in any       *)
(* order, one at a time (section 5 of the design: calls are serialized).   *)
(***************************************************************************)
\* The settings of the switches among the module parameters.
ParamSets ==
  [fast_convergence : {0, 1}, tcp_friendliness : {0, 1}, hystart : {0, 1},
   hystart_detect : {HYSTART_ACK_TRAIN, HYSTART_DELAY,
                     HYSTART_ACK_TRAIN + HYSTART_DELAY},
   hystart_delay_max : {0, 1}]

\* A new socket: its initial window and window clamp (both are metrics of
\* the route), no threshold yet.
NewTp(cwnd, cwnd_clamp) ==
  [snd_cwnd |-> cwnd, snd_cwnd_clamp |-> cwnd_clamp,
   snd_ssthresh |-> TCP_INFINITE_SSTHRESH, snd_nxt |-> 0, lsndtime |-> StartJiffies]

\* The record of a callback: its name, the path it took, the window it
\* worked on and its operand.
Called(op, path, cwnd, arg) == [op |-> op, path |-> path, cwnd |-> cwnd, arg |-> arg]

\* The record left by a step of the environment.
NoCall == Called("none", "", 0, 0)

\* The socket after bictcp_init() under one of the parameter settings P.
InitWith(P, cwnd, cwnd_clamp) ==
  /\ jiffies = StartJiffies
  /\ param \in P
  /\ ca = bictcp_init(ZeroCa, NewTp(cwnd, cwnd_clamp), StartJiffies, param)[1]
  /\ tp = [NewTp(cwnd, cwnd_clamp) EXCEPT !.snd_ssthresh =
             bictcp_init(ZeroCa, NewTp(cwnd, cwnd_clamp), StartJiffies, param)[2]]
  /\ call = Called("init", "", 0, 0)

Init == InitWith(ParamSets, TCP_INIT_CWND, MaxCwnd)

\* .init: the congestion control is (re)assigned to the socket, whose
\* private area is cleared first.
CaInit ==
  /\ ca' = bictcp_init(ZeroCa, tp, jiffies, param)[1]
  /\ tp' = [tp EXCEPT !.snd_ssthresh = bictcp_init(ZeroCa, tp, jiffies, param)[2]]
  /\ call' = Called("init", "", 0, 0)
  /\ UNCHANGED <<jiffies, param>>

\* .cong_avoid: an ACK of sequence ack that newly acknowledges acked packets.
CongAvoid(ack, acked, limited) ==
  \E r \in {bictcp_cong_avoid(ca, tp, ack, acked, limited, jiffies, param)},
     path \in {CongAvoidPath(ca, tp, acked, limited, jiffies)} :
      /\ r[1].ack_cnt <= MaxAckCnt
      /\ r[1].tcp_cwnd <= MaxTcpCwnd
      /\ ca' = r[1]
      /\ \E w \in (IF path \in {"app_limited", "slow_start"} THEN {r[2]}
                   ELSE tcp_cong_avoid_ai(tp, r[2], r[1].cnt, r[3])) :
           tp' = [tp EXCEPT !.snd_cwnd = w]
      /\ call' = Called("cong_avoid", path, IF r[3] = 0 THEN 0 ELSE r[2], ack)
      /\ UNCHANGED <<jiffies, param>>

\* .pkts_acked: one RTT sample.
PktsAcked(rtt_us) ==
  \E r \in {bictcp_acked(ca, tp, rtt_us, jiffies, param)} :
      /\ ca' = r[1]
      /\ tp' = [tp EXCEPT !.snd_ssthresh = r[2]]
      /\ call' = Called("acked", AckedPath(ca, tp, rtt_us, jiffies, param),
                        0, IF rtt_us < 0 THEN 0 ELSE SampleDelay(rtt_us))
      /\ UNCHANGED <<jiffies, param>>

\* .ssthresh: the caller stores the value returned in tp->snd_ssthresh.
RecalcSsthresh ==
  /\ ca' = RecalcCa(ca, tp, param)
  /\ tp' = [tp EXCEPT !.snd_ssthresh = bictcp_recalc_ssthresh(tp)]
  /\ call' = Called("ssthresh", "", 0, 0)
  /\ UNCHANGED <<jiffies, param>>

\* .set_state.
SetState(new_state) ==
  /\ ca' = bictcp_state(ca, tp, new_state, jiffies)
  /\ call' = Called("state", IF new_state = TCP_CA_Loss THEN "loss" ELSE "other",
                    0, 0)
  /\ UNCHANGED <<tp, jiffies, param>>

\* .cwnd_event; after CA_EVENT_TX_START tcp_event_data_sent() stamps the
\* time of the transmission.
CwndEvent(event) ==
  /\ ca' = bictcp_cwnd_event(ca, tp, event, jiffies)
  /\ tp' = IF event = CA_EVENT_TX_START THEN [tp EXCEPT !.lsndtime = jiffies]
           ELSE tp
  /\ call' = Called("cwnd_event",
                    IF event = CA_EVENT_TX_START THEN "tx_start"
                    ELSE IF event = CA_EVENT_CWND_RESTART THEN "restart"
                    ELSE "other",
                    0, 0)
  /\ UNCHANGED <<jiffies, param>>

\* The transport sends data while packets are in flight.
DataSent ==
  /\ tp' = [tp EXCEPT !.lsndtime = jiffies,
                      !.snd_nxt = Min(tp.snd_nxt + 1, MaxSeq)]
  /\ call' = NoCall
  /\ UNCHANGED <<ca, jiffies, param>>

\* The transport restarts from the window w after an idle period
\* (tcp_cwnd_restart()): it raises CA_EVENT_CWND_RESTART and reduces the
\* window, keeping the threshold.
CwndRestart(w) ==
  /\ w < tp.snd_cwnd
  /\ ca' = bictcp_cwnd_event(ca, tp, CA_EVENT_CWND_RESTART, jiffies)
  /\ tp' = [tp EXCEPT !.snd_cwnd = w]
  /\ call' = Called("cwnd_event", "restart", 0, 0)
  /\ UNCHANGED <<jiffies, param>>

\* The transport reduces its window at a congestion event, right after it
\* asked for the new threshold (tcp_enter_loss(), tcp_init_cwnd_reduction()).
CwndReduced(w) ==
  /\ call.op = "ssthresh"
  /\ w < tp.snd_cwnd
  /\ tp' = [tp EXCEPT !.snd_cwnd = w]
  /\ call' = NoCall
  /\ UNCHANGED <<ca, jiffies, param>>

\* The clock advances, up to elapsed ticks after the start.
Tick(d, elapsed) ==
  /\ jiffies + d <= StartJiffies + elapsed
  /\ d = 1 => (jiffies - StartJiffies) % CoarseTick < MaxFineTicks
  /\ jiffies' = jiffies + d
  /\ call' = NoCall
  /\ UNCHANGED <<ca, tp, param>>

\* Every callback and every step of the environment.
Next ==
  \/ CaInit
  \/ \E ack \in 0..MaxSeq, acked \in AckedSet, limited \in BOOLEAN :
       ack <= tp.snd_nxt /\ CongAvoid(ack, acked, limited)
  \/ \E rtt_us \in RttSamples : PktsAcked(rtt_us)
  \/ \E new_state \in CaStates : SetState(new_state)
  \/ \E event \in CaEvents : CwndEvent(event)
  \/ DataSent
  \/ \E w \in ReducedWindows : CwndReduced(w)
  \/ \E w \in ReducedWindows : CwndRestart(w)
  \/ \E d \in TickSteps : Tick(d, MaxElapsed)

Spec == Init /\ [][Next]_vars

(***************************************************************************)
(* Window growth: HyStart is switched off, so that slow start ends with    *)
(* the first loss and the cubic function governs the window from there.    *)
(***************************************************************************)
\* A short path: a small initial window under a small clamp.
CubicInitCwnd == 3
CubicClamp == 4

CubicParams ==
  { p \in [fast_convergence : {0, 1}, tcp_friendliness : {0, 1}, hystart : {0},
           hystart_detect : {HYSTART_ACK_TRAIN + HYSTART_DELAY},
           hystart_delay_max : {1}] : p.fast_convergence = p.tcp_friendliness }

InitCubic == InitWith(CubicParams, CubicInitCwnd, CubicClamp)

NextCubic ==
  \/ CaInit
  \/ \E acked \in AckedSet, limited \in BOOLEAN : CongAvoid(tp.snd_nxt, acked, limited)
  \/ RecalcSsthresh
  \/ \E w \in ReducedWindows : CwndReduced(w)
  \/ \E d \in TickSteps : Tick(d, MaxElapsed)

SpecCubic == InitCubic /\ [][NextCubic]_vars

(***************************************************************************)
(* Slow start with HyStart: the connection opens its window until a        *)
(* detector finds the exit point.                                          *)
(***************************************************************************)
\* Every choice of detectors, and the delay detector alone also without
\* the upper clamp of its threshold.
HystartParams ==
  { p \in [fast_convergence : {1}, tcp_friendliness : {1}, hystart : {1},
           hystart_detect : {HYSTART_ACK_TRAIN, HYSTART_DELAY,
                             HYSTART_ACK_TRAIN + HYSTART_DELAY},
           hystart_delay_max : {0, 1}] :
      p.hystart_delay_max = 0 => p.hystart_detect = HYSTART_DELAY }

\* Packets newly acknowledged by one ACK of a burst.
BurstAckedSet == {3, 6}

InitHystart == InitWith(HystartParams, TCP_INIT_CWND, MaxCwnd)

NextHystart ==
  \/ CaInit
  \/ \E ack \in 0..MaxSeq, acked \in BurstAckedSet, limited \in BOOLEAN :
       ack <= tp.snd_nxt /\ CongAvoid(ack, acked, limited)
  \/ \E rtt_us \in RttSamples : PktsAcked(rtt_us)
  \/ \E new_state \in CaStates : SetState(new_state)
  \/ DataSent
  \/ \E d \in TickSteps : Tick(d, MaxElapsed)

SpecHystart == InitHystart /\ [][NextHystart]_vars

(***************************************************************************)
(* Slow start again after an idle period: the window restarts below the    *)
(* threshold that HyStart left, within the same slow-start episode.        *)
(***************************************************************************)
RestartParams == { p \in HystartParams : p.hystart_delay_max = 1 }

\* The RTT samples of a path with a long queue.
SlowRttSamples == {5000}

InitRestart == InitWith(RestartParams, TCP_INIT_CWND, MaxCwnd)

NextRestart ==
  \/ \E ack \in 0..MaxSeq, acked \in BurstAckedSet, limited \in BOOLEAN :
       ack <= tp.snd_nxt /\ CongAvoid(ack, acked, limited)
  \/ \E rtt_us \in SlowRttSamples : PktsAcked(rtt_us)
  \/ SetState(TCP_CA_Loss)
  \/ CwndRestart(TCP_INIT_CWND)
  \/ DataSent
  \/ \E d \in TickSteps : Tick(d, MaxElapsed)

SpecRestart == InitRestart /\ [][NextRestart]_vars

(***************************************************************************)
(* Losses at large windows: slow start opens the window with stretch       *)
(* ACKs, and each loss asks for a new threshold.                           *)
(***************************************************************************)
LargeClamp == 100

LossParams ==
  [fast_convergence : {0, 1}, tcp_friendliness : {1}, hystart : {0},
   hystart_detect : {HYSTART_ACK_TRAIN + HYSTART_DELAY}, hystart_delay_max : {1}]

\* Packets newly acknowledged by one ACK, a stretch ACK among them.
StretchAckedSet == {6, 90}
\* Windows the caller falls back to after a loss.
LossWindows == {1, 60}

InitLoss == InitWith(LossParams, TCP_INIT_CWND, LargeClamp)

NextLoss ==
  \/ \E acked \in StretchAckedSet : CongAvoid(tp.snd_nxt, acked, TRUE)
  \/ RecalcSsthresh
  \/ \E w \in LossWindows : CwndReduced(w)
  \/ \E d \in TickSteps : Tick(d, MaxElapsed)

SpecLoss == InitLoss /\ [][NextLoss]_vars

(***************************************************************************)
(* Idle periods: the application stops sending and resumes later.          *)
(***************************************************************************)
IdleParams ==
  [fast_convergence : {1}, tcp_friendliness : {1}, hystart : {0},
   hystart_detect : {HYSTART_ACK_TRAIN + HYSTART_DELAY}, hystart_delay_max : {1}]

InitIdle == InitWith(IdleParams, CubicInitCwnd, CubicClamp)

NextIdle ==
  \/ \E acked \in AckedSet : CongAvoid(tp.snd_nxt, acked, TRUE)
  \/ RecalcSsthresh
  \/ \E event \in CaEvents : CwndEvent(event)
  \/ DataSent
  \/ \E d \in TickSteps : Tick(d, MaxIdleElapsed)

SpecIdle == InitIdle /\ [][NextIdle]_vars

(***************************************************************************)
(* cubic_root() on its own: an argument is drawn, and the function is      *)
(* applied to it.                                                          *)
(***************************************************************************)
\* Arguments m << k: the leading bits m, shifted by up to MaxCbrtShift bits.
MaxCbrtShift == 33
CbrtMantissas == {64, 73, 85, 97, 110, 127}

\* The word hi * 2^20 + lo.
Wide(hi, lo) == Add64(Shl64(U64(hi), 20), U64(lo))

\* The arguments: every index of the table (a < 64), leading bits at
\* every magnitude up to 2^40, the arguments of bictcp_update()
\* (cube_factor * (last_max_cwnd - cwnd)), and arguments at which the error
\* is large.
CbrtSample ==
  { U64(n) : n \in 1..63 }
    \cup { Shl64(U64(m), k) : m \in CbrtMantissas, k \in 0..MaxCbrtShift }
    \cup { Shl64(U64(1), 40) }
    \cup { Mul64(cube_factor, U64(d)) : d \in 1..MaxCwnd }
    \cup { U64(1201155983), Wide(122902, 474624) }

InitCbrt ==
  /\ jiffies = StartJiffies
  /\ param \in IdleParams
  /\ ca = ZeroCa
  /\ tp = NewTp(TCP_INIT_CWND, MaxCwnd)
  /\ \E a \in CbrtSample : call = Called("argument", "", 0, <<a, 0>>)

\* cubic_root(a) is called; the record keeps the argument and the result.
CubicRoot ==
  /\ call.op = "argument"
  /\ call' = Called("cubic_root", IF fls64(call.arg[1]) < 7 THEN "table" ELSE "newton",
                    0, <<call.arg[1], cubic_root(call.arg[1])>>)
  /\ UNCHANGED <<ca, tp, jiffies, param>>

NextCbrt == CubicRoot

SpecCbrt == InitCbrt /\ [][NextCbrt]_vars

(***************************************************************************)
(* The divisions of the callbacks.  A zero divisor raises a divide error   *)
(* in the kernel; here the divisors of a call are collected, so that a     *)
(* zero among them can be seen.                                            *)
(***************************************************************************)
\* if (bic_target > cwnd): the division ca->cnt = cwnd / (bic_target - cwnd)
\* is made.
TargetDivides(target, cwnd) == Less64(U64(cwnd), target)

\* bic_target - cwnd.
TargetDivisor(target, cwnd) == Sub64(target, U64(cwnd))

\* if (ca->tcp_cwnd > cwnd): the division max_cnt = cwnd / delta is made.
CapDivides(tcp_cwnd, cwnd) == tcp_cwnd > cwnd

\* delta = ca->tcp_cwnd - cwnd, a u32.
CapDivisor(tcp_cwnd, cwnd) == Trunc32(Sub64(U64(tcp_cwnd), U64(cwnd)))

\* The divisor of the Newton-Raphson step of cubic_root(a), which the table
\* branch (a < 64) does not reach.
CbrtDivisors(a) ==
  IF fls64(a) < 7 THEN {} ELSE {CbrtDivisor(CbrtSeed(a))}

\* The divisor inside the cubic_root() call of a new epoch below the last
\* maximum; c is the state at line 259.
EpochDivisors(c, cwnd) ==
  IF c.epoch_start = 0 /\ c.last_max_cwnd > cwnd
  THEN CbrtDivisors(Mul64(cube_factor, U64(c.last_max_cwnd - cwnd)))
  ELSE {}

\* The divisor of ca->cnt = cwnd / (bic_target - cwnd).
TargetDivisors(target, cwnd) ==
  Bind(target, LAMBDA tg :
    IF TargetDivides(tg, cwnd) THEN {TargetDivisor(tg, cwnd)} ELSE {})

\* The divisor of the friendliness cap; c is the state at the label
\* tcp_friendliness.
CapDivisors(c, cwnd, friendly) ==
  IF friendly = 0 THEN {}
  ELSE Bind(RenoLoop(c.ack_cnt, c.tcp_cwnd, (cwnd * beta_scale) \div 8), LAMBDA r :
         IF CapDivides(r[2], cwnd) THEN {CapDivisor(r[2], cwnd)} ELSE {})

\* The divisors of one bictcp_update() call, as u64 words.  The cubic
\* function writes ca->cnt alone, which the friendliness loop does not read.
UpdateDivisors(c, cwnd, acked, now, friendly) ==
  Bind([c EXCEPT !.ack_cnt = c.ack_cnt + acked], LAMBDA c1 :
    IF RateLimited(c1, cwnd, now) THEN {}
    ELSE IF SkipCubic(c1, now) THEN CapDivisors(c1, cwnd, friendly)
    ELSE Bind([c1 EXCEPT !.last_cwnd = cwnd, !.last_time = now], LAMBDA c2 :
           Bind(StartEpoch(c2, cwnd, acked, now), LAMBDA c3 :
             EpochDivisors(c2, cwnd)
               \cup TargetDivisors(BicTarget(c3, now), cwnd)
               \cup CapDivisors(c3, cwnd, friendly))))

\* a / b of C for b # 0, rounded towards zero; with b = 0 the call ends in a
\* divide error and the value is of no use.
Quotient(a, b) ==
  IF b = 0 THEN 0
  ELSE IF (a >= 0) = (b > 0) THEN (IF a >= 0 THEN a ELSE 0 - a) \div (IF b > 0 THEN b ELSE 0 - b)
  ELSE 0 - ((IF a >= 0 THEN a ELSE 0 - a) \div (IF b > 0 THEN b ELSE 0 - b))

\* variance = m2_rtt_ms / num_packets for num_packets > 0, else 0.
RttVariance(m2, num_packets) == IF num_packets > 0 THEN Quotient(m2, num_packets) ELSE 0

\* The binary search for floor(sqrt(variance)): while (start <= end) { ... }.
\* found is <<sdev, the midpoints tried>>.
RECURSIVE SdevSearch(_, _, _, _)
SdevSearch(variance, start, end, found) ==
  IF start > end THEN found
  ELSE CHOOSE r \in
         { IF mid * mid = variance THEN <<mid, Append(found[2], mid)>>
           ELSE IF mid <= Quotient(variance, mid)
                THEN SdevSearch(variance, mid + 1, end, <<mid, Append(found[2], mid)>>)
                ELSE SdevSearch(variance, start, mid - 1,
                                <<found[1], Append(found[2], mid)>>) :
           mid \in {(start + end) \div 2} } : TRUE

\* The binary search that starts from 0.
SdevRangeFromZero(variance) == <<0, variance \div 2>>

\* start = 1; end = variance >> 1;
SdevRange(variance) == <<1, variance \div 2>>

\* The values sdev may hold where the code leaves it unassigned (a negative
\* variance): whatever the stack held.
SdevUnassigned == {0, 1, 7}

\* The RTT standard deviation of bictcp_acked(): the set of
\* <<sdev, divisors>> the computation may end with.
RttSdev(m2, num_packets) ==
  Bind(RttVariance(m2, num_packets), LAMBDA variance :
    Bind(IF num_packets > 0 THEN <<num_packets>> ELSE <<>>, LAMBDA divs :
      IF variance = 0 \/ variance = 1 THEN {<<variance, divs>>}
      ELSE IF variance < 0 THEN { <<x, divs>> : x \in SdevUnassigned }
      ELSE Bind(SdevSearch(variance, SdevRange(variance)[1], SdevRange(variance)[2],
                           <<0, <<>> >>),
                LAMBDA r : {<<r[1], divs \o r[2]>>})))

(***************************************************************************)
(* Every division of the file: a connection in congestion avoidance, whose *)
(* bictcp_update() calls divide; cubic_root() on arguments of every size;  *)
(* and the RTT standard deviation of bictcp_acked() on the statistics the  *)
(* socket may hand over.                                                   *)
(***************************************************************************)
\* Arguments of cubic_root(): those of SpecCbrt, every power of two from 64
\* on, every value of seven bits and the largest u64.
CbrtDivSample ==
  CbrtSample \cup { Shl64(U64(1), k) : k \in 6..63 }
             \cup { U64(n) : n \in 64..127 }
             \cup { Sub64(U64(0), U64(1)) }

\* tp->sdev_stats: the sum of squared deviations and the number of packets.
SdevM2Set == {-4, 0, 1, 2, 3, 7, 8, 9, 24, 25, 26, 99, 1000, 46340}
SdevCountSet == {0, 1, 2, 3}

InitDiv ==
  \/ InitIdle
  \/ /\ jiffies = StartJiffies /\ param \in IdleParams /\ ca = ZeroCa
     /\ tp = NewTp(TCP_INIT_CWND, MaxCwnd)
     /\ \/ \E a \in CbrtDivSample : call = Called("argument", "", 0, <<a, 0>>)
        \/ \E m2 \in SdevM2Set, n \in SdevCountSet :
             call = Called("rtt_stats", "", 0, <<m2, n>>)

\* The state is that of a connection, not a call waiting for its arguments.
Connected == call.op \notin {"argument", "cubic_root", "rtt_stats", "rtt_sdev"}

\* The RTT standard deviation of one bictcp_acked() call.
AckedSdev ==
  /\ call.op = "rtt_stats"
  /\ \E r \in RttSdev(call.arg[1], call.arg[2]) :
       call' = Called("rtt_sdev",
                      IF RttVariance(call.arg[1], call.arg[2]) \in {0, 1} THEN "small"
                      ELSE IF RttVariance(call.arg[1], call.arg[2]) < 0 THEN "negative"
                      ELSE "search",
                      0, <<call.arg[1], call.arg[2], r[1], r[2]>>)
  /\ UNCHANGED <<ca, tp, jiffies, param>>

NextDiv ==
  \/ Connected /\ \E acked \in AckedSet : CongAvoid(tp.snd_nxt, acked, TRUE)
  \/ Connected /\ RecalcSsthresh
  \/ Connected /\ \E w \in ReducedWindows : CwndReduced(w)
  \/ Connected /\ Tick(CoarseTick, MaxElapsed)
  \/ CubicRoot
  \/ AckedSdev

SpecDiv == InitDiv /\ [][NextDiv]_vars

(***************************************************************************)
(* The loops of the file, one iteration at a time: the Reno estimate of    *)
(* bictcp_update() under the values the module parameter beta may be       *)
(* given, and the RTT standard deviation of bictcp_acked().                *)
(***************************************************************************)
\* beta_scale = 8*(BICTCP_BETA_SCALE+beta) / 3 / (BICTCP_BETA_SCALE - beta)
\* for a beta of 0..1023.
BetaScaleOf(b) == ((8 * (BICTCP_BETA_SCALE + b)) \div 3) \div (BICTCP_BETA_SCALE - b)

\* Values of the module parameter beta: the default and others.
BetaSet == {0, 511, 512, beta, 1000}

\* Windows and acknowledged-packet counts at the label tcp_friendliness.
MaxLoopCwnd == 4
MaxLoopAck == 6

\* ca->tcp_cwnd, which the loop's condition does not read, is kept in
\* TcpCwndBits bits here: it wraps as the u32 does, after fewer steps.
TcpCwndBits == 5

\* delta = (cwnd * scale) >> 3.
RenoDelta(cwnd, scale) == (cwnd * scale) \div 8

\* while (ca->ack_cnt > delta)
RenoContinues(c, delta) == c.ack_cnt > delta

\* ca->ack_cnt -= delta; ca->tcp_cwnd++;
RenoBody(c, delta) ==
  [c EXCEPT !.ack_cnt = c.ack_cnt - delta,
            !.tcp_cwnd = (c.tcp_cwnd + 1) % Pow2(TcpCwndBits)]

\* bictcp_update() is at the label tcp_friendliness of a new epoch (ack_cnt
\* packets acknowledged, tcp_cwnd = cwnd) with the beta_scale of some beta,
\* or bictcp_acked() is about to compute the deviation.
InitLoop ==
  /\ jiffies = StartJiffies /\ param \in IdleParams
  /\ \/ \E b \in BetaSet, cwnd \in 1..MaxLoopCwnd, n \in 1..MaxLoopAck :
          /\ ca = [ZeroCa EXCEPT !.ack_cnt = n, !.tcp_cwnd = cwnd]
          /\ tp = NewTp(cwnd, MaxCwnd)
          /\ call = Called("tcp_friendliness", "loop", cwnd, BetaScaleOf(b))
     \/ /\ ca = ZeroCa /\ tp = NewTp(TCP_INIT_CWND, MaxCwnd)
        /\ \E m2 \in SdevM2Set, n \in SdevCountSet :
             call = Called("rtt_stats", "", 0, <<m2, n>>)

\* The loop is being executed.
InRenoLoop == call.op = "tcp_friendliness" /\ call.path = "loop"

\* One iteration of the loop.
RenoIterate ==
  /\ InRenoLoop
  /\ RenoContinues(ca, RenoDelta(call.cwnd, call.arg))
  /\ ca' = RenoBody(ca, RenoDelta(call.cwnd, call.arg))
  /\ UNCHANGED <<tp, jiffies, param, call>>

\* The condition fails and the call goes on to the cap.
RenoExit ==
  /\ InRenoLoop
  /\ ~RenoContinues(ca, RenoDelta(call.cwnd, call.arg))
  /\ call' = [call EXCEPT !.path = "cap"]
  /\ UNCHANGED <<ca, tp, jiffies, param>>

NextLoop == RenoIterate \/ RenoExit \/ AckedSdev

\* The processor keeps executing the callback it is in.
SpecLoop == InitLoop /\ [][NextLoop]_vars /\ WF_vars(NextLoop)

(***************************************************************************)
(* A long round: the socket is in slow start at a window HyStart looks     *)
(* at, and a round lasts until 2^31 ticks after the connection started.    *)
(***************************************************************************)
TrainParams == { p \in RestartParams : HasBit(p.hystart_detect, HYSTART_ACK_TRAIN) }

\* The initial window of the route: hystart_low_window.
TrainInitCwnd == hystart_low_window

\* tcp_jiffies32 2^31 ticks after StartJiffies, in its s32 reading.
FarJiffies == INT_MAX

InitTrain == InitWith(TrainParams, TrainInitCwnd, MaxCwnd)

\* The clock advances to the tick t.
TickTo(t) ==
  /\ jiffies < t
  /\ jiffies' = t
  /\ call' = NoCall
  /\ UNCHANGED <<ca, tp, param>>

NextTrain ==
  \/ \E ack \in 0..MaxSeq, acked \in AckedSet, limited \in BOOLEAN :
       ack <= tp.snd_nxt /\ CongAvoid(ack, acked, limited)
  \/ \E rtt_us \in RttSamples : PktsAcked(rtt_us)
  \/ SetState(TCP_CA_Loss)
  \/ DataSent
  \/ jiffies < FarJiffies /\ \E d \in TickSteps : Tick(d, MaxElapsed)
  \/ TickTo(FarJiffies)

SpecTrain == InitTrain /\ [][NextTrain]_vars

(***************************************************************************)
(* Properties.                                                             *)
(***************************************************************************)
\* The paths of bictcp_cong_avoid() on which bictcp_update() is called.
UpdatePaths == {"limited", "friendly", "full"}

\* The last step was a bictcp_cong_avoid() call that called bictcp_update().
Updated(c) == c.op = "cong_avoid" /\ c.path \in UpdatePaths

\* C1, as stated: after any bictcp_cong_avoid() call, whichever way it
\* returns, ca->cnt >= 2.
C1_FloorAfterAnyAck == call.op = "cong_avoid" => ca.cnt >= 2

\* C1, amended: after a bictcp_cong_avoid() call that reached
\* bictcp_update(), ca->cnt >= 2; a call that returns before it (not cwnd
\* limited, or slow start consumed every acknowledged packet) leaves ca->cnt
\* as it was, which is 0 until the first update after a reset.
C1_FloorAfterUpdate ==
  /\ Updated(call) => ca.cnt >= 2
  /\ ca.last_cwnd = 0 => ca.cnt = 0

\* C1: a full update has left the count at its floor.
C1_Witness == call.op = "cong_avoid" /\ call.path = "full" /\ ca.cnt = 2

\* What bictcp_update() leaves as the Reno cap of ca->cnt for the window
\* cwnd: cwnd / (tcp_cwnd - cwnd).
RenoYield(c, cwnd) == cwnd \div (c.tcp_cwnd - cwnd)

\* C3, as stated: two bictcp_update() calls in the same tick with the same
\* window leave the same ca->cnt, whichever path the first call took.
C3_SameTickSameCnt ==
  [][Updated(call) /\ Updated(call') /\ call'.cwnd = call.cwnd
       => ca'.cnt = ca.cnt]_vars

\* C3, amended: of two bictcp_update() calls in the same tick with the same
\* window, the second is rate-limited and leaves ca->cnt alone when the first
\* was rate-limited or a full recomputation; when the first jumped to the
\* friendliness blend, so does the second, and it may lower ca->cnt (the Reno
\* estimate keeps growing with the ACKs) but never raises it.
C3_SameTickNoLargerCnt ==
  [][Updated(call) /\ Updated(call') /\ call'.cwnd = call.cwnd
       => IF call.path = "friendly"
          THEN call'.path = "friendly" /\ ca'.cnt <= ca.cnt
          ELSE call'.path = "limited" /\ ca'.cnt = ca.cnt]_vars

\* C3: a call in the tick of the last recomputation, with its window, was
\* rate-limited.
C3_Witness ==
  /\ call.op = "cong_avoid" /\ call.path = "limited"
  /\ call.cwnd = ca.last_cwnd /\ ca.last_time = jiffies /\ ca.cnt > 2

\* C4, as stated: with tcp_friendliness, after an update that is not
\* rate-limited and leaves tcp_cwnd above the window, ca->cnt is at most
\* cwnd / (tcp_cwnd - cwnd), for all values.
C4_RenoDominates ==
  (/\ call.op = "cong_avoid" /\ call.path \in {"friendly", "full"}
   /\ param.tcp_friendliness # 0 /\ ca.tcp_cwnd > call.cwnd)
  => ca.cnt <= RenoYield(ca, call.cwnd)

\* C4, amended: ca->cnt is at most max(cwnd / (tcp_cwnd - cwnd), 2): the
\* final floor of 2 comes after the cap, so the bound of Reno is exceeded
\* when tcp_cwnd - cwnd is larger than cwnd / 2.
C4_RenoDominatesAboveFloor ==
  (/\ call.op = "cong_avoid" /\ call.path \in {"friendly", "full"}
   /\ param.tcp_friendliness # 0 /\ ca.tcp_cwnd > call.cwnd)
  => ca.cnt <= Max(RenoYield(ca, call.cwnd), 2)

\* C4: an update has capped ca->cnt at what Reno yields, above the floor.
C4_Witness ==
  /\ call.op = "cong_avoid" /\ call.path \in {"friendly", "full"}
  /\ param.tcp_friendliness # 0 /\ ca.tcp_cwnd > call.cwnd
  /\ ca.cnt = RenoYield(ca, call.cwnd) /\ ca.cnt > 2

\* C2: once an enabled detector flag is set in ca->found, every later
\* bictcp_acked() and bictcp_cong_avoid() call of the slow-start episode
\* leaves ca->found and tp->snd_ssthresh as they are.
C2_SingleFire ==
  [][FoundEnabled(ca.found, param.hystart_detect)
       /\ call'.op \in {"acked", "cong_avoid"}
       => ca'.found = ca.found /\ tp'.snd_ssthresh = tp.snd_ssthresh]_vars

\* C2: hystart_update() was called in slow start with a flag already set:
\* the window is below the threshold, which a detector firing in this call
\* would have set to the window.
C2_Witness ==
  /\ call.op = "acked" /\ call.path = "hystart"
  /\ FoundEnabled(ca.found, param.hystart_detect)
  /\ tp.snd_cwnd < tp.snd_ssthresh

\* C5: bictcp_recalc_ssthresh() returns max(cwnd * beta / 1024, 2); it
\* sets last_max_cwnd to cwnd * (1024 + beta) / 2048, which is below the
\* previous last_max_cwnd, when fast_convergence is on and cwnd is below
\* last_max_cwnd, and to cwnd otherwise.
C5_RecalcPostcondition ==
  [][call'.op = "ssthresh"
       => /\ tp'.snd_ssthresh = Max((tp.snd_cwnd * 717) \div 1024, 2)
          /\ IF param.fast_convergence # 0 /\ tp.snd_cwnd < ca.last_max_cwnd
             THEN /\ ca'.last_max_cwnd = (tp.snd_cwnd * (1024 + 717)) \div 2048
                  /\ ca'.last_max_cwnd < ca.last_max_cwnd
             ELSE ca'.last_max_cwnd = tp.snd_cwnd]_vars

\* C5: the example: with last_max_cwnd = 100, a loss at cwnd = 60 returned
\* 42 and left last_max_cwnd = 51.
C5_Witness ==
  /\ call.op = "ssthresh" /\ param.fast_convergence # 0
  /\ tp.snd_cwnd = 60 /\ tp.snd_ssthresh = 42 /\ ca.last_max_cwnd = 51

\* The last step was a bictcp_acked() call with a sample that was neither
\* without a timestamp nor discarded; c.arg is its delay.
Sampled(c) == c.op = "acked" /\ c.path \in {"hystart", "sample"}

\* C6: after bictcp_acked() with an accepted sample, delay_min is the
\* sample's delay if it was 0 or above that delay, and unchanged otherwise.
C6_MinDelayUpdated ==
  [][Sampled(call')
       => ca'.delay_min = IF ca.delay_min = 0 \/ ca.delay_min > call'.arg
                          THEN call'.arg ELSE ca.delay_min]_vars

\* The threshold of the delay detector, as the claims state it:
\* min_delay + clamp(min_delay / 8, 32, 128), without the upper bound when
\* hystart_delay_max is off.
DelayThreshold(c, prm) ==
  c.delay_min
    + Max(32, IF prm.hystart_delay_max # 0 THEN Min(c.delay_min \div 8, 128)
              ELSE c.delay_min \div 8)

\* A bictcp_acked() call that runs the delay detector: it reaches
\* hystart_update() with HYSTART_DELAY enabled and no enabled flag set.
DelayDetectorRuns(c, prm, after_call) ==
  /\ after_call.op = "acked" /\ after_call.path = "hystart"
  /\ HasBit(prm.hystart_detect, HYSTART_DELAY)
  /\ ~FoundEnabled(c.found, prm.hystart_detect)

\* The delay detector fired in the step: it set HYSTART_DELAY and the
\* threshold to the window.
DelayFired(c, c_after, t, t_after) ==
  /\ ~HasBit(c.found, HYSTART_DELAY) /\ HasBit(c_after.found, HYSTART_DELAY)
  /\ t_after.snd_ssthresh = t.snd_cwnd

C8_FirstEpochClamp == ca.last_max_cwnd = 0 /\ ca.cnt <= 20

\* C8: a full update of the first epoch has left ca->cnt at the clamp.
C8_Witness ==
  /\ call.op = "cong_avoid" /\ call.path = "full"
  /\ ca.last_max_cwnd = 0 /\ ca.cnt = 20

\* The state bictcp_state() leaves on a transition to TCP_CA_Loss, as C9
\* states it.
LossReset(now, snd_nxt) ==
  [cnt |-> 0, last_max_cwnd |-> 0, last_cwnd |-> 0, last_time |-> 0,
   bic_origin_point |-> 0, bic_K |-> 0, delay_min |-> 0, epoch_start |-> 0,
   ack_cnt |-> 0, tcp_cwnd |-> 0, found |-> 0,
   round_start |-> now, last_ack |-> now, end_seq |-> snd_nxt,
   curr_rtt |-> 0, sample_cnt |-> 0]

\* C9: bictcp_state() resets the whole state and the HyStart round on a
\* transition to TCP_CA_Loss, so that the next bictcp_update() is a full
\* recomputation, and leaves the state unchanged on any other transition.
C9_StateChange ==
  [][/\ call'.op = "state"
          => ca' = IF call'.path = "loss" THEN LossReset(jiffies, tp.snd_nxt)
                   ELSE ca
     /\ call.op = "state" /\ call.path = "loss" /\ Updated(call')
          => call'.path = "full"]_vars

\* C9: a transition to TCP_CA_Loss has reset a connection whose HyStart had
\* fired, and started a round at the current time and sequence.
C9_Witness ==
  /\ call.op = "state" /\ call.path = "loss"
  /\ ca.found = 0 /\ tp.snd_ssthresh # TCP_INFINITE_SSTHRESH
  /\ ca.round_start = jiffies /\ jiffies # StartJiffies
  /\ ca.end_seq = tp.snd_nxt /\ tp.snd_nxt > 0

\* C10: bictcp_cwnd_event(CA_EVENT_TX_START) with an epoch and an idle time
\* delta = now - lsndtime > 0 advances epoch_start by delta, clamped to now:
\* the elapsed time of the epoch is not negative and not larger than before.
\* Without an epoch, with delta <= 0 and for every other event the state is
\* unchanged.
C10_IdleShift ==
  [][call'.op = "cwnd_event"
       => IF call'.path = "tx_start" /\ ca.epoch_start # 0
             /\ jiffies - tp.lsndtime > 0
          THEN /\ ca' = [ca EXCEPT !.epoch_start =
                           Min(ca.epoch_start + (jiffies - tp.lsndtime), jiffies)]
               /\ jiffies - ca'.epoch_start >= 0
               /\ jiffies - ca'.epoch_start <= jiffies - ca.epoch_start
          ELSE ca' = ca]_vars

\* C10: an epoch has been shifted past the time of its last update, short
\* of the current time.
C10_Witness ==
  /\ call.op = "cwnd_event" /\ call.path = "tx_start"
  /\ ca.epoch_start # 0 /\ ca.epoch_start > ca.last_time
  /\ ca.epoch_start < jiffies

\* The last step was a callback that ends the epoch or resets the state:
\* bictcp_init(), bictcp_recalc_ssthresh() or bictcp_state(TCP_CA_Loss).
EndsEpoch(c) ==
  c.op \in {"init", "ssthresh"} \/ (c.op = "state" /\ c.path = "loss")

\* C11: epoch_start is 0 after bictcp_init(), bictcp_recalc_ssthresh() and
\* a Loss reset; it is not 0 after a bictcp_update() that passes the
\* rate-limit guard; and once not 0 it stays so through every later update,
\* RTT sample and idle shift, at any tick value of the clock.
C11_EpochStartMarksEpoch ==
  [][/\ EndsEpoch(call') => ca'.epoch_start = 0
     /\ Updated(call') /\ call'.path # "limited" => ca'.epoch_start # 0
     /\ ca.epoch_start # 0 /\ call'.op \in {"cong_avoid", "acked", "cwnd_event"}
          => ca'.epoch_start # 0]_vars

\* The step started a HyStart round: bictcp_init() with HyStart on, a Loss
\* reset, or a bictcp_cong_avoid() call that found the ACK past end_seq.
RoundStarted(c, c_after, t, prm, now, after_call) ==
  \/ after_call.op = "init" /\ prm.hystart # 0
  \/ after_call.op = "state" /\ after_call.path = "loss"
  \/ /\ after_call.op = "cong_avoid" /\ after_call.path # "app_limited"
     /\ prm.hystart # 0 /\ tcp_in_slow_start(t)
     /\ c_after.round_start = now /\ c_after.last_ack = now
     /\ c_after.end_seq = t.snd_nxt /\ c_after.curr_rtt = 0

\* C12: sample_cnt is within 0..8 in every state; an RTT sample raises it
\* by at most 1 and not above 8, nothing else raises it; it decreases only
\* in a step that starts a HyStart round, and such a step sets it to 0.
C12_SampleCount ==
  /\ ca.sample_cnt \in 0..8
  /\ [][/\ ca'.sample_cnt \in 0..8
        /\ ca'.sample_cnt > ca.sample_cnt
             => call'.op = "acked" /\ ca'.sample_cnt = ca.sample_cnt + 1
        /\ ca'.sample_cnt < ca.sample_cnt
             => RoundStarted(ca, ca', tp, param, jiffies, call')
        /\ (call'.op = "init" /\ param.hystart # 0)
             \/ (call'.op = "state" /\ call'.path = "loss")
             => ca'.sample_cnt = 0]_vars

\* C12: an RTT sample was taken by hystart_update() with the 8 samples of
\* the round collected and no detector fired.
C12_Witness ==
  /\ call.op = "acked" /\ call.path = "hystart"
  /\ ca.sample_cnt = 8 /\ ca.found = 0

\* r^3 as a u64.
CubeOf(r) == Mul64(Mul64(U64(r), U64(r)), U64(r))

\* |r^3 - a|.
CubeError(a, r) ==
  IF Less64(CubeOf(r), a) THEN Sub64(a, CubeOf(r)) ELSE Sub64(CubeOf(r), a)

\* |r^3 - a| / a < 0.5%, that is 200 * |r^3 - a| < a.
WithinHalfPercent(a, r) == Less64(Mul64(CubeError(a, r), U64(200)), a)

\* r is less than 1 away from the real cube root of a: (r-1)^3 < a < (r+1)^3.
WithinOne(a, r) == r >= 1 /\ Less64(CubeOf(r - 1), a) /\ Less64(a, CubeOf(r + 1))

\* C13, as stated: for every argument v of the sample,
\* |cubic_root(v)^3 - v| / v < 0.5%.
C13_CubeRootAccurate ==
  call.op = "cubic_root" => WithinHalfPercent(call.arg[1], call.arg[2])

\* C13, amended: the bound of 0.5% holds for the arguments from 2^31 up to
\* 2^40; in the table-only branch (v < 64) cubic_root(v) is less than 1 away
\* from the real cube root, which is far more than 0.5% of so small a value.
C13_CubeRootAccurateWhenLarge ==
  call.op = "cubic_root"
  => /\ ~Less64(call.arg[1], Shl64(U64(1), 31))
          => WithinHalfPercent(call.arg[1], call.arg[2])
     /\ call.path = "table" => WithinOne(call.arg[1], call.arg[2])

\* C13: cubic_root(2^40) went through the Newton-Raphson step and is 10323.
C13_Witness ==
  /\ call.op = "cubic_root" /\ call.path = "newton"
  /\ call.arg[1] = Shl64(U64(1), 40) /\ call.arg[2] = 10323

\* The detector flags that the step set.
FlagsSet(c, c_after) ==
  { b \in {HYSTART_ACK_TRAIN, HYSTART_DELAY} : ~HasBit(c.found, b) /\ HasBit(c_after.found, b) }

\* C14, as stated: over the bictcp_acked() calls between two clearings of
\* ca->found at most one detector fires in total: a call sets at most one
\* flag, and none once a flag is set.
C14_OneFiring ==
  [][call'.op = "acked"
       => /\ Cardinality(FlagsSet(ca, ca')) <= 1
          /\ ca.found # 0 => ca'.found = ca.found]_vars

\* C14, amended: between two clearings of ca->found at most one
\* bictcp_acked() call fires: it starts with no flag set, sets the flag of
\* one enabled detector or of both, and sets the threshold to the window
\* (twice, when both fire); no other call changes ca->found except the
\* resets, and bictcp_acked() changes the threshold only when it fires.
C14_OneFiringCall ==
  [][/\ call'.op = "acked" /\ ca'.found # ca.found
          => /\ ca.found = 0
             /\ FlagsSet(ca, ca') # {}
             /\ \A b \in FlagsSet(ca, ca') : HasBit(param.hystart_detect, b)
             /\ tp'.snd_ssthresh = tp.snd_cwnd
     /\ call'.op = "acked" /\ tp'.snd_ssthresh # tp.snd_ssthresh
          => ca'.found # ca.found
     /\ call'.op # "acked" /\ ca'.found # ca.found
          => ca'.found = 0 /\ EndsEpoch(call')]_vars

\* C14: both detectors fired in one bictcp_acked() call.
C14_Witness ==
  /\ call.op = "acked" /\ call.path = "hystart"
  /\ ca.found = HYSTART_ACK_TRAIN + HYSTART_DELAY
  /\ tp.snd_ssthresh = tp.snd_cwnd

\* The minimum of the round so far and one more sample; 0 is "no sample".
RoundMin(curr_rtt, delay) == IF curr_rtt = 0 THEN delay ELSE Min(curr_rtt, delay)

\* C15, as stated: curr_rtt is 0 after a round reset, the minimum of the
\* samples while the first 8 of the round are taken, and unchanged by the
\* samples after the 8th.
C15_MinOfFirstEight ==
  [][/\ RoundStarted(ca, ca', tp, param, jiffies, call') => ca'.curr_rtt = 0
     /\ call'.op = "acked"
          => ca'.curr_rtt =
               IF DelayDetectorRuns(ca, param, call') /\ ca.sample_cnt < 8
               THEN RoundMin(ca.curr_rtt, call'.arg)
               ELSE ca.curr_rtt]_vars

\* C15, amended: curr_rtt is 0 after a round reset and the minimum of all
\* the samples the delay detector has taken in the round: a sample after
\* the 8th that is below curr_rtt lowers it too.  Samples that do not reach
\* the delay detector leave it unchanged.
C15_MinOfRound ==
  [][/\ RoundStarted(ca, ca', tp, param, jiffies, call') => ca'.curr_rtt = 0
     /\ call'.op = "acked"
          => ca'.curr_rtt =
               IF DelayDetectorRuns(ca, param, call')
               THEN RoundMin(ca.curr_rtt, call'.arg)
               ELSE ca.curr_rtt]_vars

\* C15: with the 8 samples of the round taken, the last sample is the
\* minimum of the round and no detector has fired.
C15_Witness ==
  /\ call.op = "acked" /\ call.path = "hystart"
  /\ HasBit(param.hystart_detect, HYSTART_DELAY)
  /\ ca.sample_cnt = 8 /\ ca.found = 0
  /\ ca.curr_rtt = call.arg /\ call.arg < HYSTART_DELAY_MIN

\* A bictcp_acked() call that runs the ack-train detector: it reaches
\* hystart_update() with HYSTART_ACK_TRAIN enabled and no enabled flag set.
AckTrainRuns(c, prm, after_call) ==
  /\ after_call.op = "acked" /\ after_call.path = "hystart"
  /\ HasBit(prm.hystart_detect, HYSTART_ACK_TRAIN)
  /\ ~FoundEnabled(c.found, prm.hystart_detect)

\* The threshold after the step is what it was, unless the delay detector
\* fired in the same call.
ThresholdKept(c_after, t, t_after) ==
  t_after.snd_ssthresh = t.snd_ssthresh \/ HasBit(c_after.found, HYSTART_DELAY)

RoundFields(c) == <<c.round_start, c.last_ack, c.end_seq, c.curr_rtt, c.sample_cnt>>

\* The fields of a round that starts at the time now, up to snd_nxt.
NewRound(now, snd_nxt) == <<now, now, snd_nxt, 0, 0>>

\* C17, as stated: whenever the ACK of a bictcp_cong_avoid() call is past
\* end_seq a round starts and ca->found is kept; otherwise the round fields
\* are unchanged.
C17_RoundBoundary ==
  [][call'.op = "cong_avoid"
       => /\ ca'.found = ca.found
          /\ RoundFields(ca') = IF after(call'.arg, ca.end_seq)
                                THEN NewRound(jiffies, tp.snd_nxt)
                                ELSE RoundFields(ca)]_vars

\* C17, amended: a round starts when the ACK is past end_seq and the call
\* is cwnd-limited, in slow start and HyStart is on; every other
\* bictcp_cong_avoid() call leaves the round fields unchanged.  ca->found is
\* kept by all of them.
C17_RoundBoundaryInSlowStart ==
  [][call'.op = "cong_avoid"
       => /\ ca'.found = ca.found
          /\ RoundFields(ca') =
               IF /\ after(call'.arg, ca.end_seq) /\ call'.path # "app_limited"
                  /\ tcp_in_slow_start(tp) /\ param.hystart # 0
               THEN NewRound(jiffies, tp.snd_nxt)
               ELSE RoundFields(ca)]_vars

\* C17: an ACK past the end of the round started a round, later than the
\* connection started and with a detector flag kept.
C17_Witness ==
  /\ call.op = "cong_avoid" /\ call.path # "app_limited" /\ call.arg > 0
  /\ RoundFields(ca) = NewRound(jiffies, tp.snd_nxt)
  /\ jiffies > StartJiffies /\ ca.end_seq = call.arg /\ ca.found # 0

\* C18: a bictcp_cong_avoid() call for a socket that is not cwnd-limited
\* changes nothing: every field of ca, the window and the threshold are as
\* before, whatever the ACK and whether in slow start or not.
C18_AppLimitedNoOp ==
  [][call'.op = "cong_avoid" /\ call'.path = "app_limited"
       => ca' = ca /\ tp' = tp]_vars

\* C18: an application-limited call in slow start whose ACK is past the end
\* of the round.
C18_Witness ==
  /\ call.op = "cong_avoid" /\ call.path = "app_limited"
  /\ tcp_in_slow_start(tp) /\ after(call.arg, ca.end_seq)

\* The state without the three fields that the friendliness blend and the
\* final floor write.
BesidesBlend(c) == [c EXCEPT !.ack_cnt = 0, !.tcp_cwnd = 0, !.cnt = 0]

\* C19: a bictcp_update() call with an active epoch (epoch_start # 0) in the
\* tick of the last recomputation (now = last_time) does not recompute: it
\* leaves last_cwnd, last_time, epoch_start, bic_origin_point and bic_K, and
\* every field but ack_cnt, tcp_cwnd and cnt, as they are; rate-limited it
\* only adds to ack_cnt, otherwise it blends with the Reno estimate, which
\* may lower cnt, and applies the floor of 2.  A recomputation
\* stamps last_time with the tick, so while the epoch stays active no second
\* one follows in the tick.
C19_OneRecomputationPerTick ==
  [][Updated(call')
       => /\ ca.epoch_start # 0 /\ jiffies = ca.last_time
               => /\ call'.path \in {"limited", "friendly"}
                  /\ BesidesBlend(ca') = BesidesBlend(ca)
                  /\ call'.path = "limited"
                       => /\ ca'.ack_cnt > ca.ack_cnt
                          /\ ca'.tcp_cwnd = ca.tcp_cwnd /\ ca'.cnt = ca.cnt
                  /\ call'.path = "friendly"
                       => /\ ca'.tcp_cwnd >= ca.tcp_cwnd
                          /\ ca'.cnt >= 2 /\ ca'.cnt <= Max(ca.cnt, 2)
          /\ call'.path = "full" => ca'.last_time = jiffies
          /\ Updated(call) /\ call.path = "full" /\ ca.epoch_start # 0
               => call'.path # "full"]_vars

\* C19: with an active epoch, a call in the tick of the last recomputation
\* and with another window went straight to the friendliness blend.
C19_Witness ==
  /\ call.op = "cong_avoid" /\ call.path = "friendly"
  /\ ca.epoch_start # 0 /\ ca.last_time = jiffies
  /\ call.cwnd # ca.last_cwnd /\ ca.tcp_cwnd > call.cwnd

\* C20: no division by zero.  Every bictcp_update() call of the connection
\* divides by non-zero values only, whatever the number of packets
\* acknowledged: by bic_target - cwnd, by tcp_cwnd - cwnd and inside its
\* cubic_root() call.  For every 64-bit argument of at least 64, cubic_root()
\* reads its table at an index within 0..63, its seed is at least 2 and its
\* divisor x * (x - 1) is not zero.  The standard deviation of an RTT sample
\* divides by the packet count and by the midpoints of its search, and none
\* of them is zero.
UpdateDividesSafely ==
  (Connected /\ Updated(call'))
    => \A acked \in AckedSet :
         \A d \in UpdateDivisors(ca, call'.cwnd, acked, jiffies,
                                 param.tcp_friendliness) : ~IsZero(d)

CubicRootDividesSafely ==
  (call.op \in {"argument", "cubic_root"} /\ fls64(call.arg[1]) >= 7)
    => /\ CbrtIndex(call.arg[1]) \in 0..63
       /\ CbrtSeed(call.arg[1]) >= 2
       /\ \A d \in CbrtDivisors(call.arg[1]) : ~IsZero(d)

SdevDividesSafely ==
  call.op = "rtt_sdev" => \A i \in 1..Len(call.arg[4]) : call.arg[4][i] # 0

C20_NoDivisionByZero ==
  /\ [](CubicRootDividesSafely /\ SdevDividesSafely)
  /\ [][UpdateDividesSafely]_vars

\* A bictcp_update() call recomputed the cubic function and the friendliness
\* cap divided the window by tcp_cwnd - cwnd > 0.
C20_Witness ==
  /\ Connected /\ Updated(call) /\ call.path = "full"
  /\ ca.tcp_cwnd > call.cwnd
  /\ ca.cnt = call.cwnd \div (ca.tcp_cwnd - call.cwnd)

\* C21: every callback terminates for every input: the Reno-estimate loop of
\* bictcp_update() is left for every window, every count of acknowledged
\* packets and every configured beta, and the computation of the RTT
\* standard deviation ends.
C21_Terminates ==
  /\ InRenoLoop ~> (call.op = "tcp_friendliness" /\ call.path = "cap")
  /\ (call.op = "rtt_stats") ~> (call.op = "rtt_sdev")

\* C22: whenever bictcp_cong_avoid() passes ca->cnt to tcp_cong_avoid_ai(),
\* that is after each of its bictcp_update() calls, ca->cnt >= 2, the window
\* being at least 1; and a call that finds ca->cnt = 0, as bictcp_init() and
\* a Loss reset leave it, takes neither the rate-limited return nor the
\* friendliness-only path: it computes ca->cnt.
C22_CntPassedAtLeastTwo ==
  [][Updated(call')
       => /\ call'.cwnd >= 1
          /\ ca'.cnt >= 2
          /\ ca.cnt = 0 => call'.path = "full"]_vars

\* C22: HyStart had set the threshold, a Loss reset cleared its flags and
\* ca->cnt, and the next ACK went through the whole of bictcp_update().
C22_Witness ==
  /\ Updated(call) /\ call.path = "full"
  /\ tp.snd_ssthresh < TCP_INFINITE_SSTHRESH /\ ca.found = 0
  /\ ca.last_max_cwnd = 0 /\ ca.cnt >= 2

\* More than hystart_ack_delta has passed since ca->last_ack; the clock of
\* the connection runs upwards from StartJiffies.
TrainGap(c, now) == now > c.last_ack + hystart_ack_delta

\* The step starts a round: bictcp_hystart_reset() has run.
StartsRound(c, c_after, now) ==
  /\ c_after.round_start = bictcp_clock(now) /\ c_after.last_ack = bictcp_clock(now)
  /\ c_after.sample_cnt = 0 /\ c_after.curr_rtt = 0

\* C23: within a round, once more than hystart_ack_delta has passed since
\* ca->last_ack, a sample processed then or later neither advances
\* ca->last_ack nor fires the ack-train detector; only a round reset, which
\* sets ca->last_ack to the current time, ends this.
C23_TrainStaysBroken ==
  [][(TrainGap(ca, bictcp_clock(jiffies)) /\ ~StartsRound(ca, ca', jiffies))
       => /\ ca'.last_ack = ca.last_ack
          /\ HasBit(ca'.found, HYSTART_ACK_TRAIN) = HasBit(ca.found, HYSTART_ACK_TRAIN)]_vars

====
